---- MODULE Spec2Model ----
(***************************************************************************)
(* A model of the MetPath Studio translation layer                         *)
(* (backend/app/translator.py) and of the two HTTP handlers that call it   *)
(* (backend/app/main.py).                                                  *)
(*                                                                         *)
(* Python strings are modelled as sequences of one-character strings, so   *)
(* that splitting, stripping, prefix tests, the safe-character             *)
(* substitution and the formatting of edge ids are computed, not assumed.  *)
(* An absent XML attribute (attrib.get(...) returning None) is the value   *)
(* None, which is no string of the model.                                  *)
(***************************************************************************)
EXTENDS Integers, Sequences, FiniteSets, TLC

VARIABLES kegg, upload, inbox, kgmlOut, sbmlOut

vars == <<kegg, upload, inbox, kgmlOut, sbmlOut>>

(***************************************************************************)
(* Strings                                                                 *)
(***************************************************************************)
None == <<"<None>">>

Truthy(s) == s # None /\ s # <<>>

\* Python's `a or b` on optional strings
OrElse(a, b) == IF Truthy(a) THEN a ELSE b

\* attrib.get(key, default)
GetDefault(a, default) == IF a = None THEN default ELSE a

Whitespace == {" ", "\n", "\t"}

UpperAlpha == <<"A", "B", "C", "D", "E", "F", "G", "H", "I", "J", "K", "L", "M",
                "N", "O", "P", "Q", "R", "S", "T", "U", "V", "W", "X", "Y", "Z">>

LowerAlpha == <<"a", "b", "c", "d", "e", "f", "g", "h", "i", "j", "k", "l", "m",
                "n", "o", "p", "q", "r", "s", "t", "u", "v", "w", "x", "y", "z">>

Digits == <<"0", "1", "2", "3", "4", "5", "6", "7", "8", "9">>

Range(f) == {f[i] : i \in DOMAIN f}

LowerChar(c) ==
    IF \E i \in 1..26 : UpperAlpha[i] = c
    THEN LowerAlpha[CHOOSE i \in 1..26 : UpperAlpha[i] = c]
    ELSE c

UpperChar(c) ==
    IF \E i \in 1..26 : LowerAlpha[i] = c
    THEN UpperAlpha[CHOOSE i \in 1..26 : LowerAlpha[i] = c]
    ELSE c

\* str.lower()
Lower(s) == [i \in 1..Len(s) |-> LowerChar(s[i])]

\* str.upper()
Upper(s) == [i \in 1..Len(s) |-> UpperChar(s[i])]

\* str.startswith(p)
StartsWith(s, p) == Len(s) >= Len(p) /\ SubSeq(s, 1, Len(p)) = p

\* the index of the first occurrence of p in s, 0 when there is none
IndexOf(s, p) ==
    LET hits == {i \in 1..(Len(s) - Len(p) + 1) : SubSeq(s, i, i + Len(p) - 1) = p}
    IN IF hits = {} THEN 0 ELSE CHOOSE i \in hits : \A j \in hits : i <= j

\* `p in s`
Contains(s, p) == p = <<>> \/ IndexOf(s, p) > 0

\* s.split(p)[0]
BeforeFirst(s, p) ==
    IF IndexOf(s, p) = 0 THEN s ELSE SubSeq(s, 1, IndexOf(s, p) - 1)

\* s.split(p, 1)[1], for s that contains p
AfterFirst(s, p) == SubSeq(s, IndexOf(s, p) + Len(p), Len(s))

RECURSIVE LStrip(_)
LStrip(s) ==
    IF s # <<>> /\ Head(s) \in Whitespace THEN LStrip(Tail(s)) ELSE s

RECURSIVE RStrip(_)
RStrip(s) ==
    IF s # <<>> /\ s[Len(s)] \in Whitespace
    THEN RStrip(SubSeq(s, 1, Len(s) - 1))
    ELSE s

\* str.strip()
Strip(s) == RStrip(LStrip(s))

\* str.split(): the whitespace-separated tokens
RECURSIVE SplitWs(_)
SplitWs(s) ==
    LET t == LStrip(s)
        ends == {i \in 1..Len(t) : t[i] \in Whitespace}
        stop == IF ends = {} THEN Len(t) + 1
                ELSE CHOOSE i \in ends : \A j \in ends : i <= j
    IN IF t = <<>> THEN <<>>
       ELSE <<SubSeq(t, 1, stop - 1)>> \o SplitWs(SubSeq(t, stop, Len(t)))

\* str.replace(p, "") for a non-empty p
RECURSIVE Remove(_, _)
Remove(s, p) ==
    IF IndexOf(s, p) = 0 THEN s
    ELSE SubSeq(s, 1, IndexOf(s, p) - 1)
         \o Remove(SubSeq(s, IndexOf(s, p) + Len(p), Len(s)), p)

\* ", ".join(parts)
RECURSIVE Join(_)
Join(parts) ==
    IF parts = <<>> THEN <<>>
    ELSE IF Len(parts) = 1 THEN parts[1]
    ELSE parts[1] \o <<",", " ">> \o Join(Tail(parts))

(***************************************************************************)
(* Floating point                                                          *)
(*                                                                         *)
(* Python floats are IEEE-754 binary64.  A non-negative float is modelled  *)
(* exactly, as an integer part and the bits of its binary fraction (most   *)
(* significant first, no trailing zero): [int |-> 4, frac |-> <<1>>] is    *)
(* 4.5.  Every arithmetic result is rounded to 53 significant bits, to     *)
(* nearest, ties to even, as the hardware does.  Coordinates read from a   *)
(* document are integral, so differences of coordinates are exact          *)
(* integers.                                                               *)
(***************************************************************************)
MantissaBits == 53

RECURSIVE BitLen(_)
BitLen(n) == IF n = 0 THEN 0 ELSE 1 + BitLen(n \div 2)

\* the last index in lo..hi where bits holds v, 0 when there is none
RECURSIVE LastOf(_, _, _, _)
LastOf(bits, v, lo, hi) ==
    IF lo > hi THEN 0
    ELSE IF lo = hi THEN (IF bits[lo] = v THEN lo ELSE 0)
    ELSE LET mid == (lo + hi) \div 2
             r == LastOf(bits, v, mid + 1, hi)
         IN IF r # 0 THEN r ELSE LastOf(bits, v, lo, mid)

\* the first index in lo..hi where bits holds v, 0 when there is none
RECURSIVE FirstOf(_, _, _, _)
FirstOf(bits, v, lo, hi) ==
    IF lo > hi THEN 0
    ELSE IF lo = hi THEN (IF bits[lo] = v THEN lo ELSE 0)
    ELSE LET mid == (lo + hi) \div 2
             l == FirstOf(bits, v, lo, mid)
         IN IF l # 0 THEN l ELSE FirstOf(bits, v, mid + 1, hi)

TrimZeros(bits) == SubSeq(bits, 1, LastOf(bits, 1, 1, Len(bits)))

LeadingZeros(bits) ==
    IF FirstOf(bits, 1, 1, Len(bits)) = 0 THEN Len(bits)
    ELSE FirstOf(bits, 1, 1, Len(bits)) - 1

FxInt(n) == [int |-> n, frac |-> <<>>]

\* bits + 1 in the last place: <<carry out, bits>>
IncBits(bits) ==
    LET z == LastOf(bits, 0, 1, Len(bits))
    IN IF z = 0 THEN <<1, [i \in 1..Len(bits) |-> 0]>>
       ELSE <<0, [i \in 1..Len(bits) |->
                    IF i < z THEN bits[i] ELSE IF i = z THEN 1 ELSE 0]>>

\* The binary64 nearest to int + 0.bits (plus something below the last bit
\* when sticky), ties to even.
Round53(int, bits, sticky) ==
    LET keep == IF int > 0 THEN MantissaBits - BitLen(int)
                ELSE LeadingZeros(bits) + MantissaBits
        kept == SubSeq(bits, 1, IF Len(bits) < keep THEN Len(bits) ELSE keep)
        roundBit == IF Len(bits) > keep THEN bits[keep + 1] ELSE 0
        rest == sticky \/ LastOf(bits, 1, keep + 2, Len(bits)) # 0
        odd == Len(kept) = keep /\ kept[keep] = 1
        padded == kept \o [i \in 1..(keep - Len(kept)) |-> 0]
        up == IncBits(padded)
    IN IF TrimZeros(bits) = <<>> /\ int = 0 /\ ~sticky THEN FxInt(0)
       ELSE IF roundBit = 1 /\ (rest \/ odd)
            THEN [int |-> int + up[1], frac |-> TrimZeros(up[2])]
            ELSE [int |-> int, frac |-> TrimZeros(kept)]

\* 2^k mod r
RECURSIVE PowMod2(_, _)
PowMod2(k, r) ==
    IF k = 0 THEN 1 % r
    ELSE LET h == PowMod2(k \div 2, r)
         IN (((h * h) % r) * (IF k % 2 = 1 THEN 2 ELSE 1)) % r

\* Long division of rem by r (rem < r): the remainder left after k steps
DivRem(rem, r, k) == (rem * PowMod2(k, r)) % r

\* and the k-th bit of the quotient's fraction
DivBit(rem, r, k) == (2 * DivRem(rem, r, k - 1)) \div r

\* float(n) / float(r), for integers n >= 0 and r > 0
FxDiv(n, r) ==
    LET q == n \div r
        rem == n % r
        zeros == IF q > 0 \/ rem = 0 THEN 0
                 ELSE (CHOOSE k \in 1..32 :
                          /\ DivBit(rem, r, k) = 1
                          /\ \A j \in 1..(k - 1) : DivBit(rem, r, j) = 0) - 1
        count == zeros + MantissaBits - BitLen(q) + 1
        bits == [k \in 1..count |-> DivBit(rem, r, k)]
    IN IF rem = 0 THEN FxInt(q)
       ELSE Round53(q, bits, DivRem(rem, r, count) # 0)

LimbBits == 16

LimbBase == 65536

\* 2^k for k in 0..15
Pow2(k) == <<1, 2, 4, 8, 16, 32, 64, 128, 256, 512, 1024, 2048, 4096, 8192,
             16384, 32768>>[k + 1]

BitAt(bits, i) == IF i <= Len(bits) THEN bits[i] ELSE 0

\* the value of the c-th group of 16 bits
Limb(bits, c) ==
    LET o == LimbBits * (c - 1)
    IN BitAt(bits, o + 1) * 32768 + BitAt(bits, o + 2) * 16384
       + BitAt(bits, o + 3) * 8192 + BitAt(bits, o + 4) * 4096
       + BitAt(bits, o + 5) * 2048 + BitAt(bits, o + 6) * 1024
       + BitAt(bits, o + 7) * 512 + BitAt(bits, o + 8) * 256
       + BitAt(bits, o + 9) * 128 + BitAt(bits, o + 10) * 64
       + BitAt(bits, o + 11) * 32 + BitAt(bits, o + 12) * 16
       + BitAt(bits, o + 13) * 8 + BitAt(bits, o + 14) * 4
       + BitAt(bits, o + 15) * 2 + BitAt(bits, o + 16)

LimbToBits(v) == [k \in 1..LimbBits |-> (v \div Pow2(LimbBits - k)) % 2]

\* 0.bits * d for 0 <= d < 2^15, sixteen bits at a time from the last group up:
\* <<carry into the integer part, bits>>
RECURSIVE MulLimbs(_, _, _, _)
MulLimbs(bits, d, c, n) ==
    IF c > n THEN <<0, <<>>>>
    ELSE LET low == MulLimbs(bits, d, c + 1, n)
             t == Limb(bits, c) * d + low[1]
         IN <<t \div LimbBase, LimbToBits(t % LimbBase) \o low[2]>>

MulBits(bits, d) == MulLimbs(bits, d, 1, (Len(bits) + LimbBits - 1) \div LimbBits)

\* float(d) * f, for an integer d >= 0
FxMulInt(d, f) ==
    LET p == MulBits(f.frac, d)
    IN Round53(f.int * d + p[1], p[2], FALSE)

\* 0.bits / r for 0 < r < 2^15, sixteen bits at a time from the first group
\* down, rem < r carried in: <<bits, the remainder left>>
RECURSIVE DivLimbs(_, _, _, _, _)
DivLimbs(bits, r, rem, c, n) ==
    IF c > n THEN <<<<>>, rem>>
    ELSE LET t == rem * LimbBase + Limb(bits, c)
             low == DivLimbs(bits, r, t % r, c + 1, n)
         IN <<LimbToBits(t \div r) \o low[1], low[2]>>

\* f / float(r), for an integer 0 < r < 2^15; five groups past those of f
\* hold the bits that decide the rounding
FxDivInt(f, r) ==
    LET q == DivLimbs(f.frac, r, f.int % r, 1,
                      ((Len(f.frac) + LimbBits - 1) \div LimbBits) + 5)
    IN Round53(f.int \div r, q[1], q[2] # 0)

\* f + float(k), for an integer k >= 0
FxAddInt(f, k) == Round53(f.int + k, f.frac, FALSE)

\* f <= g
FxLeq(f, g) ==
    LET n == IF Len(f.frac) < Len(g.frac) THEN Len(g.frac) ELSE Len(f.frac)
        a == f.frac \o [i \in 1..(n - Len(f.frac)) |-> 0]
        b == g.frac \o [i \in 1..(n - Len(g.frac)) |-> 0]
        diff == [i \in 1..n |-> IF a[i] = b[i] THEN 0 ELSE 1]
        at == FirstOf(diff, 1, 1, n)
    IN \/ f.int < g.int
       \/ f.int = g.int /\ (at = 0 \/ a[at] < b[at])

\* min(f, g): Python returns the first of equal arguments
FxMin(f, g) == IF FxLeq(f, g) THEN f ELSE g

(***************************************************************************)
(* Small helpers on numbers and sequences                                  *)
(***************************************************************************)
MinOf(S) == CHOOSE x \in S : \A y \in S : x <= y

MaxOf(S) == CHOOSE x \in S : \A y \in S : y <= x

\* seq with x appended unless it is already there
AppendNew(seq, x) == IF x \in Range(seq) THEN seq ELSE Append(seq, x)

\* seq followed by those elements of more it does not hold yet, in order
RECURSIVE ExtendNew(_, _)
ExtendNew(seq, more) ==
    IF more = <<>> THEN seq
    ELSE ExtendNew(AppendNew(seq, Head(more)), Tail(more))

(***************************************************************************)
(* KGML documents                                                          *)
(*                                                                         *)
(* A parsed document is its root's attributes, its entry elements and its  *)
(* reaction elements in document order.  An attribute the code only copies *)
(* or compares (type) is an atom, Absent when the element lacks it.        *)
(***************************************************************************)
Absent == "<absent>"

GetAtom(a, default) == IF a = Absent THEN default ELSE a

KNOWN_COFACTOR_IDS ==
    {<<"C", "0", "0", "0", "0", "2">>, <<"C", "0", "0", "0", "0", "8">>, <<"C", "0", "0", "0", "2", "0">>, <<"C", "0", "0", "0", "0", "3">>, <<"C", "0", "0", "0", "0", "4">>,
     <<"C", "0", "0", "0", "0", "5">>, <<"C", "0", "0", "0", "0", "6">>, <<"C", "0", "0", "0", "0", "7">>, <<"C", "0", "0", "0", "0", "1">>, <<"C", "0", "0", "0", "0", "9">>}

COFACTOR_KEYWORDS ==
    {<<"a", "t", "p">>, <<"a", "d", "p">>, <<"a", "m", "p">>, <<"n", "a", "d">>, <<"n", "a", "d", "h">>, <<"n", "a", "d", "p", "h">>, <<"n", "a", "d", "p">>, <<"f", "a", "d">>,
     <<"c", "o", "a">>, <<"c", "o", "-", "a">>, <<"c", "o", "e", "n", "z", "y", "m", "e">>, <<"h", "2", "o">>, <<"p", "i">>, <<"p", "h", "o", "s", "p", "h", "a", "t", "e">>}

NormalizeLabel(raw, fallback) ==
    LET r == Strip(OrElse(raw, <<>>))
        line == Strip(BeforeFirst(r, <<"\n">>))
        first == Strip(BeforeFirst(line, <<".", ".", ".">>))
        token == BeforeFirst(first, <<" ">>)
    IN IF r = <<>> THEN fallback
       ELSE IF StartsWith(first, <<"c", "p", "d", ":">>) THEN AfterFirst(first, <<":">>)
       ELSE IF \/ StartsWith(first, <<"k", "o", ":">>)
               \/ StartsWith(first, <<"e", "c", "o", ":">>)
               \/ StartsWith(first, <<"r", "n", ":">>)
            THEN (IF Contains(token, <<":">>) THEN AfterFirst(token, <<":">>) ELSE token)
       ELSE first

DigitValue(c) == (CHOOSE i \in 1..10 : Digits[i] = c) - 1

RECURSIVE DecimalValue(_)
DecimalValue(ds) ==
    IF ds = <<>> THEN 0
    ELSE 10 * DecimalValue(SubSeq(ds, 1, Len(ds) - 1)) + DigitValue(ds[Len(ds)])

\* float(value), default on ValueError.  The model reads decimal integer
\* literals; every other string of its documents is one float() rejects.
ParseFloat(value, default) ==
    LET t == Strip(value)
        signed == t # <<>> /\ Head(t) \in {"-", "+"}
        ds == IF signed THEN Tail(t) ELSE t
    IN IF ds # <<>> /\ \A i \in 1..Len(ds) : ds[i] \in Range(Digits)
       THEN (IF signed /\ Head(t) = "-" THEN 0 - DecimalValue(ds) ELSE DecimalValue(ds))
       ELSE default

IsCofactor(node_id, label) ==
    LET candidate_id == Strip(OrElse(node_id, <<>>))
        normalized_id == IF candidate_id = <<>> THEN <<>>
                         ELSE Upper(Remove(SplitWs(candidate_id)[1], <<"c", "p", "d", ":">>))
        label_l == Lower(OrElse(label, <<>>))
    IN \/ normalized_id \in KNOWN_COFACTOR_IDS
       \/ Lower(normalized_id) \in COFACTOR_KEYWORDS
       \/ \E k \in COFACTOR_KEYWORDS : Contains(label_l, k)

\* the dictionary built from one entry element
EntryData(entry) ==
    LET g == entry.graphics
        name_attr == GetDefault(entry.name, <<>>)
        graphics_label == IF g.present THEN g.name ELSE None
        x_attr == IF g.present THEN g.x ELSE GetDefault(entry.x, <<"0">>)
        y_attr == IF g.present THEN g.y ELSE GetDefault(entry.y, <<"0">>)
        reaction_attr == Strip(OrElse(entry.reaction, <<>>))
        tokens == Range(SplitWs(reaction_attr))
    IN [id |-> entry.id,
        type |-> GetAtom(entry.type, "unknown"),
        name |-> name_attr,
        label |-> NormalizeLabel(OrElse(graphics_label, name_attr), entry.id),
        x |-> ParseFloat(OrElse(x_attr, <<"0">>), 0),
        y |-> ParseFloat(OrElse(y_attr, <<"0">>), 0),
        reaction_ids |->
            {SubSeq(t, 4, Len(t)) : t \in {u \in tokens : StartsWith(u, <<"r", "n", ":">>)}}
            \cup {u \in tokens : StartsWith(u, <<"R">>)},
        reaction_name |-> reaction_attr]

\* dict[key] = value on a dictionary kept as the sequence of its values in
\* insertion order: a key already there keeps its place and takes the value
DictSet(dict, data) ==
    IF \E i \in 1..Len(dict) : dict[i].id = data.id
    THEN [i \in 1..Len(dict) |-> IF dict[i].id = data.id THEN data ELSE dict[i]]
    ELSE Append(dict, data)

\* entries_by_id after the first k entry elements
RECURSIVE EntriesById(_, _)
EntriesById(entries, k) ==
    IF k = 0 THEN <<>>
    ELSE IF ~Truthy(entries[k].id) THEN EntriesById(entries, k - 1)
    ELSE DictSet(EntriesById(entries, k - 1), EntryData(entries[k]))

\* reaction_lookup.get(rid, [])
ReactionLookup(entries_by_id, rid) ==
    LET Declares(data) == rid \in data.reaction_ids
        hits == SelectSeq(entries_by_id, Declares)
    IN [i \in 1..Len(hits) |-> hits[i].id]

\* type_lookup.get(entry_id, "")
TypeLookup(entries_by_id, entry_id) ==
    IF \E i \in 1..Len(entries_by_id) : entries_by_id[i].id = entry_id
    THEN entries_by_id[CHOOSE i \in 1..Len(entries_by_id) :
                          entries_by_id[i].id = entry_id].type
    ELSE ""

CollectEntryData(root) == EntriesById(root.entries, Len(root.entries))

(***************************************************************************)
(* Coordinate normalization                                                *)
(***************************************************************************)
ViewportWidth == 1200

ViewportHeight == 900

Padding == 80

MaxScale == 5

Max2(a, b) == IF a >= b THEN a ELSE b

\* the scale factor taken from the width alone
ScaleByWidth(range_x, range_y) ==
    FxMin(FxDiv(ViewportWidth - 2 * Padding, range_x), FxInt(MaxScale))

\* the scale factor for the given coordinate ranges
Scale(range_x, range_y) ==
    FxMin(FxMin(FxDiv(ViewportWidth - 2 * Padding, range_x),
                FxDiv(ViewportHeight - 2 * Padding, range_y)),
          FxInt(MaxScale))

RangeX(nodes) ==
    Max2(MaxOf({nodes[i].x : i \in 1..Len(nodes)})
         - MinOf({nodes[i].x : i \in 1..Len(nodes)}), 1)

RangeY(nodes) ==
    Max2(MaxOf({nodes[i].y : i \in 1..Len(nodes)})
         - MinOf({nodes[i].y : i \in 1..Len(nodes)}), 1)

Rescale(value, min_value, scale) ==
    FxAddInt(FxMulInt(value - min_value, scale), Padding)

RescaleNodes(nodes, min_x, min_y, scale) ==
    [i \in 1..Len(nodes) |->
        [nodes[i] EXCEPT !.x = Rescale(nodes[i].x, min_x, scale),
                         !.y = Rescale(nodes[i].y, min_y, scale)]]

NormalizeCoordinates(nodes) ==
    IF nodes = <<>> THEN nodes
    ELSE RescaleNodes(nodes,
                      MinOf({nodes[i].x : i \in 1..Len(nodes)}),
                      MinOf({nodes[i].y : i \in 1..Len(nodes)}),
                      Scale(RangeX(nodes), RangeY(nodes)))

(***************************************************************************)
(* Reactions to edges (KGML)                                               *)
(***************************************************************************)
\* the characters re.sub(r"[^a-zA-Z0-9_\\-]", "_", ...) leaves alone
SafeChars ==
    Range(UpperAlpha) \cup Range(LowerAlpha) \cup Range(Digits) \cup {"_", "\\", "-"}

ReactionDisplayLabel(reaction_name, reaction_id) ==
    LET IsRn(r) == StartsWith(r, <<"r", "n", ":">>)
        rn_terms == SelectSeq(SplitWs(reaction_name), IsRn)
    IN IF reaction_name # <<>> /\ rn_terms # <<>> THEN Join(rn_terms)
       ELSE reaction_id

\* the entry ids reaction_to_entries lists for the given tokens, in order
RECURSIVE LookupAll(_, _)
LookupAll(reaction_ids, entries_by_id) ==
    IF reaction_ids = <<>> THEN <<>>
    ELSE ReactionLookup(entries_by_id, Head(reaction_ids))
         \o LookupAll(Tail(reaction_ids), entries_by_id)

\* the labels kept, in order, from those of the enzyme entries
RECURSIVE KeepLabels(_, _)
KeepLabels(labels, found) ==
    IF found = <<>> THEN labels
    ELSE KeepLabels(IF /\ Head(found) # <<>>
                       /\ Head(found) \notin Range(labels)
                       /\ Len(Head(found)) < 32
                    THEN Append(labels, Head(found))
                    ELSE labels,
                    Tail(found))

ExtractEnzymeLabels(reaction_id, reaction_ids, entries_by_id) ==
    LET ids == {entries_by_id[i].id : i \in 1..Len(entries_by_id)}
        direct == IF reaction_id # <<>> /\ reaction_id \in ids
                  THEN <<reaction_id>> ELSE <<>>
        enzyme_entries == ExtendNew(direct, LookupAll(reaction_ids, entries_by_id))
        LabelOf(entry_id) ==
            entries_by_id[CHOOSE i \in 1..Len(entries_by_id) :
                             entries_by_id[i].id = entry_id].label
        labels == KeepLabels(<<>>, [i \in 1..Len(enzyme_entries) |->
                                       LabelOf(enzyme_entries[i])])
    IN SubSeq(labels, 1, IF Len(labels) < 4 THEN Len(labels) ELSE 4)

ReactionEdgeId(reaction_id, source, target) ==
    [i \in 1..Len(reaction_id) |->
        IF reaction_id[i] \in SafeChars THEN reaction_id[i] ELSE "_"]
    \o <<":">> \o source \o <<"-", ">">> \o target

\* what the loop body reads from one reaction element
ReactionData(reaction, entries_by_id) ==
    LET reaction_id == GetDefault(reaction.id, <<>>)
        reaction_name == GetDefault(reaction.name, <<>>)
        IsRn(tok) == StartsWith(tok, <<"r", "n", ":">>)
        rn_named == SelectSeq(SplitWs(reaction_name), IsRn)
        rn_ids == IF rn_named # <<>> THEN rn_named
                  ELSE IF reaction_id # <<>> THEN <<reaction_id>> ELSE <<>>
    IN [reaction_id |-> reaction_id,
        reaction_name |-> reaction_name,
        reversible |-> GetAtom(reaction.type, "irreversible") = "reversible",
        substrates |-> SelectSeq(reaction.substrates, Truthy),
        products |-> SelectSeq(reaction.products, Truthy),
        enzymes |-> ExtractEnzymeLabels(reaction_id, rn_ids, entries_by_id),
        entries_by_id |-> entries_by_id]

ForwardEdge(rx, source, target) ==
    [id |-> ReactionEdgeId(OrElse(rx.reaction_id, rx.reaction_name), source, target),
     source |-> source,
     target |-> target,
     label |-> ReactionDisplayLabel(rx.reaction_name, rx.reaction_id),
     reaction_id |-> rx.reaction_id,
     reaction_name |-> rx.reaction_name,
     status |-> "normal",
     reversible |-> rx.reversible,
     enzymes |-> rx.enzymes,
     annotation |-> "",
     source_type |-> TypeLookup(rx.entries_by_id, source),
     target_type |-> TypeLookup(rx.entries_by_id, target),
     kgml_type |-> "reaction"]

ReverseEdge(rx, source, target) ==
    [id |-> ReactionEdgeId(rx.reaction_id \o <<"_", "r", "e", "v">>, target, source),
     source |-> target,
     target |-> source,
     label |-> ReactionDisplayLabel(rx.reaction_name, rx.reaction_id),
     reaction_id |-> rx.reaction_id,
     reaction_name |-> rx.reaction_name,
     status |-> "normal",
     reversible |-> TRUE,
     enzymes |-> rx.enzymes,
     annotation |-> "",
     source_type |-> TypeLookup(rx.entries_by_id, target),
     target_type |-> TypeLookup(rx.entries_by_id, source),
     kgml_type |-> "reaction_reversible_partner"]

\* the inner loop's body without its guard on the endpoints
EmitPairUnguarded(acc, rx, node_ids, source, target) ==
    LET key == <<rx.reaction_id, source, target>>
        reverse_key == <<rx.reaction_id, target, source>>
    IN IF key \in acc.seen_edges THEN acc
       ELSE IF rx.reversible /\ reverse_key \notin (acc.seen_edges \cup {key})
       THEN [seen_edges |-> acc.seen_edges \cup {key, reverse_key},
             edges |-> acc.edges \o <<ForwardEdge(rx, source, target),
                                      ReverseEdge(rx, source, target)>>]
       ELSE [seen_edges |-> acc.seen_edges \cup {key},
             edges |-> Append(acc.edges, ForwardEdge(rx, source, target))]

\* the body of the inner loop, on acc = [seen_edges, edges]
EmitPair(acc, rx, node_ids, source, target) ==
    LET key == <<rx.reaction_id, source, target>>
        reverse_key == <<rx.reaction_id, target, source>>
    IN IF source \notin node_ids \/ target \notin node_ids THEN acc
       ELSE IF key \in acc.seen_edges THEN acc
       ELSE IF rx.reversible /\ reverse_key \notin (acc.seen_edges \cup {key})
       THEN [seen_edges |-> acc.seen_edges \cup {key, reverse_key},
             edges |-> acc.edges \o <<ForwardEdge(rx, source, target),
                                      ReverseEdge(rx, source, target)>>]
       ELSE [seen_edges |-> acc.seen_edges \cup {key},
             edges |-> Append(acc.edges, ForwardEdge(rx, source, target))]

\* the two nested loops over one reaction's substrates and products: the
\* state after the first k (source, target) pairs
RECURSIVE EmitPairs(_, _, _, _)
EmitPairs(acc, rx, node_ids, k) ==
    IF k = 0 THEN acc
    ELSE EmitPair(EmitPairs(acc, rx, node_ids, k - 1), rx, node_ids,
                  rx.substrates[((k - 1) \div Len(rx.products)) + 1],
                  rx.products[((k - 1) % Len(rx.products)) + 1])

\* the loop over the reaction elements: the state after the first k
RECURSIVE EmitReactions(_, _, _, _)
EmitReactions(reactions, entries_by_id, node_ids, k) ==
    IF k = 0 THEN [seen_edges |-> {}, edges |-> <<>>]
    ELSE LET rx == ReactionData(reactions[k], entries_by_id)
             acc == EmitReactions(reactions, entries_by_id, node_ids, k - 1)
         IN IF rx.substrates = <<>> \/ rx.products = <<>> THEN acc
            ELSE EmitPairs(acc, rx, node_ids,
                           Len(rx.substrates) * Len(rx.products))

MetaboliteNode(data) ==
    [id |-> data.id,
     label |-> data.label,
     x |-> data.x,
     y |-> data.y,
     type |-> "metabolite",
     is_cofactor |-> IsCofactor(data.name, data.label),
     raw_id |-> data.name,
     original_type |-> data.type,
     entry_name |-> data.name]

\* the compound entries, positioned in the viewport
CompoundNodes(entries_by_id) ==
    LET IsCompound(data) == data.type = "compound"
    IN NormalizeCoordinates(SelectSeq(entries_by_id, IsCompound))

\* the node list, cofactors skipped when hide_cofactors
MetaboliteNodes(compound_nodes, hide_cofactors) ==
    LET Shown(n) == ~(hide_cofactors /\ n.is_cofactor)
    IN SelectSeq([i \in 1..Len(compound_nodes) |-> MetaboliteNode(compound_nodes[i])],
                 Shown)

NodeIds(nodes) == {nodes[i].id : i \in 1..Len(nodes)}

\* the final filter of translate_kgml_to_graph and its return value
FilterCofactors(root, nodes, edges, hide_cofactors) ==
    LET NotCofactor(n) == ~n.is_cofactor
        kept == SelectSeq(nodes, NotCofactor)
        valid_ids == NodeIds(kept)
        Valid(e) == e.source \in valid_ids /\ e.target \in valid_ids
    IN [pathway_id |-> Remove(GetDefault(root.name, <<"u", "n", "k", "n", "o", "w", "n">>), <<"p", "a", "t", "h", ":">>),
        pathway_name |-> GetDefault(root.title, <<"K", "E", "G", "G", " ", "p", "a", "t", "h", "w", "a", "y">>),
        nodes |-> IF hide_cofactors THEN kept ELSE nodes,
        edges |-> IF hide_cofactors THEN SelectSeq(edges, Valid) ELSE edges]

\* the reaction loop of translate_kgml_to_graph over the given nodes
TranslateReactions(root, entries_by_id, nodes, hide_cofactors) ==
    FilterCofactors(root, nodes,
                    EmitReactions(root.reactions, entries_by_id, NodeIds(nodes),
                                  Len(root.reactions)).edges,
                    hide_cofactors)

\* translate_kgml_to_graph with the cofactors hidden before the coordinates
\* are normalized
TranslateEntriesHidingFirst(root, entries_by_id, hide_cofactors) ==
    LET Kept(data) ==
            /\ data.type = "compound"
            /\ ~(hide_cofactors /\ IsCofactor(data.name, data.label))
    IN TranslateReactions(root, entries_by_id,
                          MetaboliteNodes(NormalizeCoordinates(SelectSeq(entries_by_id,
                                                                         Kept)),
                                          hide_cofactors),
                          hide_cofactors)

TranslateEntries(root, entries_by_id, hide_cofactors) ==
    TranslateReactions(root, entries_by_id,
                       MetaboliteNodes(CompoundNodes(entries_by_id), hide_cofactors),
                       hide_cofactors)

\* translate_kgml_to_graph on a parsed document
TranslateKgmlToGraph(root, hide_cofactors) ==
    TranslateEntries(root, CollectEntryData(root), hide_cofactors)

(***************************************************************************)
(* SBML documents                                                          *)
(*                                                                         *)
(* A parsed document is the species elements and the reaction elements     *)
(* that the namespace-agnostic tag match finds, in document order; a       *)
(* reaction holds the species attributes of the speciesReference children  *)
(* of its listOfReactants and listOfProducts.                              *)
(*                                                                         *)
(* x = center + radius * cos(angle) is kept as its three operands; the     *)
(* angle is the binary64 the code computes, angle_step * index with        *)
(* angle_step = 2 * pi / node_count.                                       *)
(***************************************************************************)
CenterX == 640

CenterY == 420

MinRadius == 170

MaxRadius == 560

RadiusPerNode == 28

Min2(a, b) == IF a <= b THEN a ELSE b

\* the n-th smallest element of a set of numbers
Nth(S, n) == CHOOSE i \in S : Cardinality({j \in S : j < i}) = n - 1

\* species_nodes after the first k species elements: one per id, from the
\* first element that has it
SpeciesNodes(species, k) ==
    LET SpeciesId(i) == OrElse(species[i].id, species[i].name)
        added == {i \in 1..k :
                     /\ Truthy(SpeciesId(i))
                     /\ \A j \in 1..(i - 1) : SpeciesId(j) # SpeciesId(i)}
    IN [n \in 1..Cardinality(added) |->
           [id |-> SpeciesId(Nth(added, n)),
            label |-> GetDefault(species[Nth(added, n)].name,
                                 SpeciesId(Nth(added, n)))]]

\* the radius without its upper limit
LayoutRadiusUnclamped(node_count) == Max2(MinRadius, node_count * RadiusPerNode)

LayoutRadius(node_count) == Min2(MaxRadius, Max2(MinRadius, node_count * RadiusPerNode))

\* 2 * pi, the binary64 0x1.921fb54442d18p+2
TwoPi ==
    [int |-> 6,
     frac |-> <<0, 1, 0, 0, 1, 0, 0, 0, 0, 1, 1, 1, 1, 1, 1, 0, 1, 1, 0, 1, 0, 1, 0, 1,
                0, 0, 0, 1, 0, 0, 0, 1, 0, 0, 0, 0, 1, 0, 1, 1, 0, 1, 0, 0, 0, 1, 1>>]

AngleStep(node_count) == FxDivInt(TwoPi, Max2(node_count, 1))

\* angle_step * idx
LayoutAngle(angle_step, index) == FxMulInt(index, angle_step)

\* the node of the species at 0-based position index
SbmlNode(species_node, index, radius, angle) ==
    [id |-> species_node.id,
     label |-> species_node.label,
     x |-> [center |-> CenterX, radius |-> radius, of |-> "cos", angle |-> angle],
     y |-> [center |-> CenterY, radius |-> radius, of |-> "sin", angle |-> angle],
     type |-> "metabolite",
     is_cofactor |-> FALSE,
     raw_id |-> species_node.id,
     original_type |-> "sbml_species"]

\* the radial layout of the species
LayoutNodes(species_nodes, radius, angle_step) ==
    [i \in 1..Len(species_nodes) |->
        SbmlNode(species_nodes[i], i - 1, radius, LayoutAngle(angle_step, i - 1))]

SbmlNodes(species_nodes) ==
    LayoutNodes(species_nodes, LayoutRadius(Len(species_nodes)),
                AngleStep(Len(species_nodes)))

SbmlReactionData(reaction) ==
    LET reaction_id == OrElse(reaction.id, OrElse(reaction.name, <<"r", "e", "a", "c", "t", "i", "o", "n">>))
    IN [reaction_id |-> reaction_id,
        reaction_name |-> GetDefault(reaction.name, reaction_id),
        reversible |-> Lower(GetDefault(reaction.reversible, <<"f", "a", "l", "s", "e">>))
                          \in {<<"t", "r", "u", "e">>, <<"1">>, <<"y", "e", "s">>},
        substrates |-> SelectSeq(reaction.reactants, Truthy),
        products |-> SelectSeq(reaction.products, Truthy)]

SbmlEdge(rx, edge_reaction_id, source, target) ==
    [id |-> edge_reaction_id \o <<":">> \o source \o <<"-", ">">> \o target,
     source |-> source,
     target |-> target,
     label |-> ReactionDisplayLabel(rx.reaction_name, rx.reaction_id),
     reaction_id |-> rx.reaction_id,
     reaction_name |-> rx.reaction_name,
     status |-> "normal",
     reversible |-> rx.reversible,
     enzymes |-> <<>>,
     annotation |-> "",
     kgml_type |-> "sbml_reaction",
     source_id |-> rx.reaction_id]

\* the body of the inner loop, on acc = [seen_edges, edges]
SbmlEmitPair(acc, rx, species_ids, substrate, product) ==
    LET edge_key == <<rx.reaction_id, substrate, product>>
        reverse_key == <<rx.reaction_id \o <<"_", "r", "e", "v">>, product, substrate>>
    IN IF substrate \notin species_ids \/ product \notin species_ids THEN acc
       ELSE IF substrate = product THEN acc
       ELSE IF edge_key \in acc.seen_edges THEN acc
       ELSE IF rx.reversible /\ reverse_key \notin (acc.seen_edges \cup {edge_key})
       THEN [seen_edges |-> acc.seen_edges \cup {edge_key, reverse_key},
             edges |-> acc.edges
                 \o <<SbmlEdge(rx, rx.reaction_id, substrate, product),
                      SbmlEdge(rx, rx.reaction_id \o <<"_", "r", "e", "v">>, product, substrate)>>]
       ELSE [seen_edges |-> acc.seen_edges \cup {edge_key},
             edges |-> Append(acc.edges,
                              SbmlEdge(rx, rx.reaction_id, substrate, product))]

RECURSIVE SbmlEmitPairs(_, _, _, _)
SbmlEmitPairs(acc, rx, species_ids, k) ==
    IF k = 0 THEN acc
    ELSE SbmlEmitPair(SbmlEmitPairs(acc, rx, species_ids, k - 1), rx, species_ids,
                      rx.substrates[((k - 1) \div Len(rx.products)) + 1],
                      rx.products[((k - 1) % Len(rx.products)) + 1])

\* the loop over the reaction elements: the state after the first k
RECURSIVE SbmlEmitReactions(_, _, _)
SbmlEmitReactions(reactions, species_ids, k) ==
    IF k = 0 THEN [seen_edges |-> {}, edges |-> <<>>]
    ELSE LET rx == SbmlReactionData(reactions[k])
             acc == SbmlEmitReactions(reactions, species_ids, k - 1)
         IN IF rx.substrates = <<>> \/ rx.products = <<>> THEN acc
            ELSE SbmlEmitPairs(acc, rx, species_ids,
                               Len(rx.substrates) * Len(rx.products))

(***************************************************************************)
(* The two pipelines and their HTTP handlers                               *)
(*                                                                         *)
(* An exception is the name of its type in the field raised ("" when the   *)
(* call returned).  A failed call carries the empty response.              *)
(***************************************************************************)
NoResponse ==
    [pathway_id |-> <<>>, pathway_name |-> <<>>, nodes |-> <<>>, edges |-> <<>>,
     node_count |-> 0, edge_count |-> 0]

\* fetch_kgml: one urlopen call; any exception inside it, the non-200
\* status and the decoding error included, leaves as a RuntimeError
FetchKgml(remote) ==
    [raised |-> IF remote.kind = "reply" /\ remote.status = 200 /\ remote.decodable
                THEN "" ELSE "RuntimeError",
     fetches |-> 1]

\* ET.fromstring in translate_kgml_to_graph, outside any try
ParseKgml(remote) == [raised |-> IF remote.parsable THEN "" ELSE "ParseError"]

\* the PathwayResponse of build_metabolic_graph
PathwayResponse(graph, hide_cofactors) ==
    [pathway_id |-> graph.pathway_id,
     pathway_name |-> graph.pathway_name,
     nodes |-> graph.nodes,
     edges |-> graph.edges,
     cofactor_filter |-> hide_cofactors,
     node_count |-> Len(graph.nodes),
     edge_count |-> Len(graph.edges)]

BuildMetabolicGraph(remote, hide_cofactors) ==
    IF FetchKgml(remote).raised # ""
    THEN [raised |-> FetchKgml(remote).raised, fetches |-> FetchKgml(remote).fetches,
          response |-> NoResponse]
    ELSE IF ParseKgml(remote).raised # ""
    THEN [raised |-> ParseKgml(remote).raised, fetches |-> FetchKgml(remote).fetches,
          response |-> NoResponse]
    ELSE [raised |-> "", fetches |-> FetchKgml(remote).fetches,
          response |-> PathwayResponse(TranslateKgmlToGraph(remote.root,
                                                            hide_cofactors),
                                       hide_cofactors)]

\* the try/except of get_pathway: only a RuntimeError becomes an
\* HTTPException (502); any other exception leaves the handler
GetPathwayReply(built, hide_cofactors) ==
    [served |-> TRUE,
     hide_cofactors |-> hide_cofactors,
     raised |-> built.raised,
     fetches |-> built.fetches,
     status |-> IF built.raised = "" THEN 200
                ELSE IF built.raised = "RuntimeError" THEN 502
                ELSE 500,
     handled |-> built.raised \in {"", "RuntimeError"},
     response |-> built.response]

GetPathwayOutcome(remote, hide_cofactors) ==
    GetPathwayReply(BuildMetabolicGraph(remote, hide_cofactors), hide_cofactors)

\* the return value of build_metabolic_graph_from_sbml
SbmlResponse(nodes, edges) ==
    [pathway_id |-> <<"s", "b", "m", "l", "_", "i", "m", "p", "o", "r", "t">>,
     pathway_name |-> <<"S", "B", "M", "L", " ", "i", "m", "p", "o", "r", "t">>,
     nodes |-> nodes,
     edges |-> edges,
     node_count |-> Len(nodes),
     edge_count |-> Len(edges),
     source |-> "sbml_import"]

\* the reaction loop of build_metabolic_graph_from_sbml and what follows it
SbmlReactions(content, nodes, edges) ==
    IF edges = <<>>
    THEN [raised |-> "RuntimeError",
          message |-> "No valid reactions found in SBML file",
          reactions_examined |-> Len(content.reactions), response |-> NoResponse]
    ELSE [raised |-> "", message |-> "",
          reactions_examined |-> Len(content.reactions),
          response |-> SbmlResponse(nodes, edges)]

\* build_metabolic_graph_from_sbml without the check for an empty model
SbmlSpeciesUnchecked(content, species_nodes) ==
    SbmlReactions(content, SbmlNodes(species_nodes),
                  SbmlEmitReactions(content.reactions, NodeIds(species_nodes),
                                    Len(content.reactions)).edges)

\* build_metabolic_graph_from_sbml once the species are collected
SbmlSpecies(content, species_nodes) ==
    IF species_nodes = <<>>
    THEN [raised |-> "RuntimeError", message |-> "No species found in SBML model",
          reactions_examined |-> 0, response |-> NoResponse]
    ELSE SbmlReactions(content, SbmlNodes(species_nodes),
                       SbmlEmitReactions(content.reactions, NodeIds(species_nodes),
                                         Len(content.reactions)).edges)

BuildMetabolicGraphFromSbml(content) ==
    IF ~content.parsable
    THEN [raised |-> "RuntimeError", message |-> "Invalid SBML file",
          reactions_examined |-> 0, response |-> NoResponse]
    ELSE SbmlSpecies(content, SpeciesNodes(content.species, Len(content.species)))

\* the try/except of import_sbml
ImportSbmlReply(built) ==
    [served |-> TRUE, called |-> TRUE, raised |-> built.raised,
     message |-> built.message,
     reactions_examined |-> built.reactions_examined,
     status |-> IF built.raised = "" THEN 200
                ELSE IF built.raised = "RuntimeError" THEN 422
                ELSE 500,
     response |-> built.response]

\* import_sbml: empty content is refused before the core is called
ImportSbmlOutcome(content) ==
    IF content.empty
    THEN [served |-> TRUE, called |-> FALSE, raised |-> "", message |-> "",
          reactions_examined |-> 0, status |-> 400, response |-> NoResponse]
    ELSE ImportSbmlReply(BuildMetabolicGraphFromSbml(content))

NotServed ==
    [served |-> FALSE, hide_cofactors |-> FALSE, raised |-> "", fetches |-> 0,
     status |-> 0, handled |-> TRUE, response |-> NoResponse]

NotImported ==
    [served |-> FALSE, called |-> FALSE, raised |-> "", message |-> "",
     reactions_examined |-> 0, status |-> 0, response |-> NoResponse]

(***************************************************************************)
(* The documents of the model                                              *)
(***************************************************************************)
MaxEntries == 3

MaxReactions == 2

MaxCoordEntries == 3

MaxSpecies == 3

MaxSbmlReactions == 2

MaxLayoutSpecies == 22

SeqsUpTo(S, n) == UNION {[1..k -> S] : k \in 0..n}

NoGraphics == [present |-> FALSE, name |-> None, x |-> None, y |-> None]

Compound(id, name, label, x, y) ==
    [id |-> id, type |-> "compound", name |-> name, reaction |-> None,
     x |-> None, y |-> None,
     graphics |-> [present |-> TRUE, name |-> label, x |-> x, y |-> y]]

Gene(id, name, label, reaction) ==
    [id |-> id, type |-> "gene", name |-> name, reaction |-> reaction,
     x |-> <<"1", "0">>, y |-> <<"2", "0">>,
     graphics |-> [present |-> TRUE, name |-> label, x |-> <<"5", "5">>, y |-> <<"6", "6">>]]

Rx(id, name, type, substrates, products) ==
    [id |-> id, name |-> name, type |-> type,
     substrates |-> substrates, products |-> products]

EntryA == Compound(<<"A">>, <<"c", "p", "d", ":", "C", "0", "0", "0", "2", "2">>, <<"P", "y", "r", "u", "v", "a", "t", "e">>, <<"0">>, <<"0">>)

EntryB == Compound(<<"B">>, <<"c", "p", "d", ":", "C", "0", "0", "1", "8", "6">>, <<"L", "a", "c", "t", "a", "t", "e">>, <<"1", "0", "4">>, <<"0">>)

EntryC == Compound(<<"C">>, <<"c", "p", "d", ":", "C", "0", "0", "0", "3", "1">>, <<"G", "l", "u", "c", "o", "s", "e", ".", ".", ".">>, <<"0">>, <<"7", "4">>)

EntryG == Gene(<<"G">>, <<"e", "c", "o", ":", "b", "1", "8", "5", "4", " ", "e", "c", "o", ":", "b", "1", "6", "7", "6">>, <<"p", "y", "k", "A", ",", " ", "p", "y", "k", "F", ".", ".", ".">>, <<"r", "n", ":", "R", "1", " ", "R", "2">>)

\* the same ids, classified as cofactors: by the KEGG id, by the label
CofactorA == Compound(<<"A">>, <<"c", "p", "d", ":", "C", "0", "0", "0", "0", "2">>, <<"A", "d", "e", "n", "o", "s", "i", "n", "e">>, <<"0">>, <<"0">>)

CofactorB == Compound(<<"B">>, <<"c", "p", "d", ":", "C", "0", "0", "1", "8", "6">>, <<"b", "e", "t", "a", "-", "N", "A", "D", "H">>, <<"1", "0", "4">>, <<"0">>)

BaseEntries == <<EntryA, EntryB, EntryC, EntryG>>

ReactionPool ==
    {Rx(<<"R", "1">>, <<"r", "n", ":", "R", "1">>, Absent, <<<<"A">>>>, <<<<"B">>>>),
     Rx(<<"R", "1">>, <<"r", "n", ":", "R", "1">>, "reversible", <<<<"A">>>>, <<<<"B">>>>),
     Rx(<<"R", "1">>, None, "reversible", <<<<"B">>>>, <<<<"A">>>>),
     Rx(<<"R", "1", "_", "r", "e", "v">>, None, "irreversible", <<<<"B">>>>, <<<<"A">>>>),
     Rx(<<"R", ".", "1">>, None, "irreversible", <<<<"A">>>>, <<<<"B">>>>),
     Rx(<<"R", "_", "1">>, None, "irreversible", <<<<"A">>>>, <<<<"B">>>>),
     Rx(None, <<"R", "1">>, "irreversible", <<<<"A">>>>, <<<<"B">>>>),
     Rx(None, <<"r", "n", ":", "R", "1", " ", "r", "n", ":", "R", "2">>, "reversible", <<<<"A">>>>, <<<<"B">>>>),
     Rx(<<"R", "2">>, None, "irreversible", <<<<"A">>, <<"B">>>>, <<<<"C">>>>),
     Rx(<<"R", "2">>, <<"r", "n", ":", "R", "2">>, "reversible", <<<<"A">>>>, <<<<"B">>, <<"C">>>>),
     \* endpoints that are no node: unknown, absent, empty
     Rx(<<"G">>, None, "irreversible", <<None, <<"A">>>>, <<<<"Z">>, <<>>, <<"B">>>>),
     Rx(<<"R", "1">>, None, "reversible", <<<<"A">>, <<"B">>>>, <<<<"A">>, <<"B">>>>)}

CofactorEntries ==
    {<<CofactorA, EntryB>>,
     <<CofactorA, EntryB, EntryC, EntryG>>,
     <<EntryA, CofactorB, EntryC, EntryG>>}

CofactorReactionPool ==
    {Rx(<<"R", "1">>, None, "irreversible", <<<<"A">>>>, <<<<"B">>>>),
     Rx(<<"R", "1">>, <<"r", "n", ":", "R", "1">>, "reversible", <<<<"A">>>>, <<<<"B">>>>),
     Rx(<<"R", "2">>, None, "reversible", <<<<"C">>>>, <<<<"A">>, <<"B">>>>),
     Rx(<<"R", "2">>, None, "irreversible", <<<<"B">>, <<"A">>>>, <<<<"C">>>>)}

\* a second element with the id A: another type, another label
GeneA == Gene(<<"A">>, <<"e", "c", "o", ":", "b", "0", "0", "0", "1">>, <<"t", "h", "r", "A">>, <<"r", "n", ":", "R", "1">>)

\* a second compound with the id A: a cofactor, unparsable x
WaterA == Compound(<<"A">>, <<"c", "p", "d", ":", "C", "0", "0", "0", "0", "1">>, <<"H", "2", "O">>, <<"a", "b", "c">>, <<"5", "0">>)

\* no id: skipped
Nameless == Compound(None, <<"c", "p", "d", ":", "C", "0", "0", "0", "9", "9">>, <<"N", "a", "m", "e", "l", "e", "s", "s">>, <<"7">>, <<"7">>)

EntryPool == {EntryA, CofactorB, EntryC, GeneA, WaterA, EntryB, Nameless}

FixedReactions ==
    <<Rx(<<"R", "1">>, None, "irreversible", <<<<"A">>>>, <<<<"B">>>>),
      Rx(<<"R", "2">>, None, "reversible", <<<<"B">>>>, <<<<"C">>>>)>>

CoordPool ==
    {<<<<"0">>, <<"0">>>>, <<<<"0">>, <<"1", "6", "3">>>>, <<<<"2", "0", "0", "0">>, <<"9", "0", "0">>>>, <<<<"-", "5", "0">>, <<"7", "4">>>>}

CoordIds == <<<<"A">>, <<"B">>, <<"C">>, <<"D">>, <<"E">>, <<"F">>>>

CoordEntries(coords) ==
    [i \in 1..Len(coords) |->
        Compound(CoordIds[i], <<"c", "p", "d", ":", "C", "0", "0", "0", "2", "2">>, <<"P", "y", "r", "u", "v", "a", "t", "e">>, coords[i][1], coords[i][2])]

KgmlRoot(entries, reactions) ==
    [name |-> <<"p", "a", "t", "h", ":", "m", "a", "p", "0", "0", "0", "1", "0">>, title |-> <<"G", "l", "y", "c", "o", "l", "y", "s", "i", "s">>,
     entries |-> entries, reactions |-> reactions]

KgmlRoots ==
    {KgmlRoot(BaseEntries, r) : r \in SeqsUpTo(ReactionPool, MaxReactions)}
    \cup {KgmlRoot(e, r) :
            e \in CofactorEntries, r \in SeqsUpTo(CofactorReactionPool, MaxReactions)}
    \cup {KgmlRoot(e, FixedReactions) : e \in SeqsUpTo(EntryPool, MaxEntries)}
    \cup {KgmlRoot(CoordEntries(c), <<>>) : c \in SeqsUpTo(CoordPool, MaxCoordEntries)}

EmptyRoot == [name |-> None, title |-> None, entries |-> <<>>, reactions |-> <<>>]

\* what the KEGG REST service does on a request
Remote(kind, status, decodable, parsable, root) ==
    [kind |-> kind, status |-> status, decodable |-> decodable,
     parsable |-> parsable, root |-> root]

Unreachable == Remote("connection_error", 0, FALSE, FALSE, EmptyRoot)

FailingRemotes ==
    {Unreachable,
     Remote("timeout", 0, FALSE, FALSE, EmptyRoot),
     Remote("reply", 404, TRUE, FALSE, EmptyRoot),
     Remote("reply", 500, TRUE, FALSE, EmptyRoot),
     Remote("reply", 200, FALSE, FALSE, EmptyRoot),
     \* a body that is no XML
     Remote("reply", 200, TRUE, FALSE, EmptyRoot)}

KgmlRemotes ==
    {Remote("reply", 200, TRUE, TRUE, root) : root \in KgmlRoots} \cup FailingRemotes

Species(id, name) == [id |-> id, name |-> name]

SbmlRx(id, name, reversible, reactants, products) ==
    [id |-> id, name |-> name, reversible |-> reversible,
     reactants |-> reactants, products |-> products]

SpeciesPool ==
    {Species(<<"A">>, <<"A", "l", "p", "h", "a">>),
     Species(<<"B">>, None),
     \* a second species with the id A
     Species(<<"A">>, <<"O", "t", "h", "e", "r">>),
     \* no id: the name is the id
     Species(None, <<"C">>),
     \* neither: skipped
     Species(None, None)}

SbmlReactionPool ==
    {SbmlRx(<<"R", "1">>, None, None, <<<<"A">>>>, <<<<"B">>>>),
     SbmlRx(<<"R", "1">>, <<"r", "n", ":", "R", "1">>, <<"t", "r", "u", "e">>, <<<<"A">>>>, <<<<"B">>>>),
     SbmlRx(<<"R", "1">>, None, <<"T", "r", "u", "e">>, <<<<"A">>, <<"B">>>>, <<<<"B">>, <<"A">>>>),
     SbmlRx(<<"R", "1", "_", "r", "e", "v">>, None, <<"f", "a", "l", "s", "e">>, <<<<"B">>>>, <<<<"A">>>>),
     SbmlRx(None, <<"R", "1">>, <<"n", "o">>, <<<<"B">>>>, <<<<"A">>>>),
     SbmlRx(<<"R", "2">>, None, <<"y", "e", "s">>, <<<<"A">>>>, <<<<"A">>>>),
     SbmlRx(<<"R", "2">>, None, None, <<<<"A">>>>, <<<<"Z">>, None>>),
     SbmlRx(None, None, <<"1">>, <<<<"A">>>>, <<<<"B">>, <<"C">>>>)}

BaseSpecies == <<Species(<<"A">>, <<"A", "l", "p", "h", "a">>), Species(<<"B">>, None), Species(<<"C">>, <<"G", "a", "m", "m", "a">>)>>

FixedSbmlReactions ==
    {<<SbmlRx(<<"R", "1">>, None, <<"t", "r", "u", "e">>, <<<<"A">>>>, <<<<"B">>>>)>>,
     <<SbmlRx(<<"R", "1">>, None, None, <<<<"B">>>>, <<<<"C">>>>)>>}

DecimalDigits(n) ==
    IF n < 10 THEN <<Digits[n + 1]>>
    ELSE <<Digits[(n \div 10) + 1], Digits[(n % 10) + 1]>>

LayoutSpecies(n) == [i \in 1..n |-> Species(<<"s">> \o DecimalDigits(i), None)]

LayoutReactions ==
    {<<SbmlRx(<<"R", "1">>, None, None, <<<<"s", "1">>>>, <<<<"s", "2">>>>)>>,
     <<SbmlRx(<<"R", "1">>, None, <<"t", "r", "u", "e">>, <<<<"s", "2">>>>, <<<<"s", "1">>>>),
       SbmlRx(<<"R", "2">>, None, None, <<<<"s", "1">>>>, <<<<"s", "3">>>>)>>}

Content(empty, parsable, species, reactions) ==
    [empty |-> empty, parsable |-> parsable, species |-> species,
     reactions |-> reactions]

NoUpload == Content(TRUE, FALSE, <<>>, <<>>)

SbmlUploads ==
    {Content(FALSE, TRUE, s, r) :
        s \in SeqsUpTo(SpeciesPool, MaxSpecies), r \in FixedSbmlReactions}
    \cup {Content(FALSE, TRUE, BaseSpecies, r) :
            r \in SeqsUpTo(SbmlReactionPool, MaxSbmlReactions)}
    \cup {Content(FALSE, TRUE, LayoutSpecies(n), r) :
            n \in 1..MaxLayoutSpecies, r \in LayoutReactions}
    \cup {NoUpload, Content(FALSE, FALSE, <<>>, <<>>)}

(***************************************************************************)
(* The service                                                             *)
(*                                                                         *)
(* kegg is what the KEGG service answers, upload the file a client posts,  *)
(* inbox the requests not yet served.  Each handler is one action: the     *)
(* service is synchronous and keeps nothing between calls.                 *)
(***************************************************************************)
GetPathwayRequest(hide) == [op |-> "get_pathway", hide_cofactors |-> hide]

ImportSbmlRequest == [op |-> "import_sbml", hide_cofactors |-> FALSE]

Init ==
    /\ kgmlOut = [hide \in BOOLEAN |-> NotServed]
    /\ sbmlOut = NotImported
    /\ \/ /\ kegg \in KgmlRemotes
          /\ upload = NoUpload
          /\ inbox = {GetPathwayRequest(TRUE), GetPathwayRequest(FALSE)}
       \/ /\ kegg = Unreachable
          /\ upload \in SbmlUploads
          /\ inbox = {ImportSbmlRequest}

\* GET /api/pathway/{pathway_id}?hide_cofactors=...
GetPathway(req) ==
    /\ req.op = "get_pathway"
    /\ kgmlOut' = [kgmlOut EXCEPT ![req.hide_cofactors] =
                      GetPathwayOutcome(kegg, req.hide_cofactors)]
    /\ inbox' = inbox \ {req}
    /\ UNCHANGED <<kegg, upload, sbmlOut>>

\* POST /api/import/sbml
ImportSbml(req) ==
    /\ req.op = "import_sbml"
    /\ sbmlOut' = ImportSbmlOutcome(upload)
    /\ inbox' = inbox \ {req}
    /\ UNCHANGED <<kegg, upload, kgmlOut>>

Next == \E req \in inbox : GetPathway(req) \/ ImportSbml(req)

Spec == Init /\ [][Next]_vars


(***************************************************************************)
(* Properties                                                              *)
(***************************************************************************)
\* the responses the service has returned
KgmlOk(hide) == kgmlOut[hide].served /\ kgmlOut[hide].status = 200

SbmlOk == sbmlOut.served /\ sbmlOut.status = 200

Responses ==
    {kgmlOut[hide].response : hide \in {h \in BOOLEAN : KgmlOk(h)}}
    \cup (IF SbmlOk THEN {sbmlOut.response} ELSE {})

NoDangling(response) ==
    \A i \in 1..Len(response.edges) :
        /\ response.edges[i].source \in NodeIds(response.nodes)
        /\ response.edges[i].target \in NodeIds(response.nodes)

\* C1: in every response of either pipeline, for either value of
\* hide_cofactors, the source and the target of every edge are ids of nodes
\* of the same response.
NoDanglingEdges == \A response \in Responses : NoDangling(response)

\* a response with edges to a document one of whose reactions names an
\* endpoint that is no node of the response
NoDanglingEdgesWitness ==
    /\ KgmlOk(TRUE)
    /\ kgmlOut[TRUE].response.edges # <<>>
    /\ \E i \in 1..Len(kegg.root.reactions) :
          /\ kegg.root.reactions[i].substrates # <<>>
          /\ \E p \in Range(kegg.root.reactions[i].products) :
                p \notin NodeIds(kgmlOut[TRUE].response.nodes)

Triple(edge) == <<edge.reaction_id, edge.source, edge.target>>

EdgeIds(response) == [i \in 1..Len(response.edges) |-> response.edges[i].id]

Triples(response) == [i \in 1..Len(response.edges) |-> Triple(response.edges[i])]

Distinct(seq) == \A i, j \in 1..Len(seq) : i < j => seq[i] # seq[j]

\* C2: in every response of either pipeline no two edges have the same
\* (reaction_id field, source, target).
Deduplication == \A response \in Responses : Distinct(Triples(response))

\* one reversible SBML reaction R1 with reactants A, B and products B, A:
\* the reverse edge of the pair (A, B) and the forward edge of the pair
\* (B, A) are both (R1, B, A), and the reverse edge of (B, A) repeats
\* (R1, A, B)
DeduplicationFails ==
    /\ upload = Content(FALSE, TRUE, BaseSpecies,
                        <<SbmlRx(<<"R", "1">>, None, <<"T", "r", "u", "e">>, <<<<"A">>, <<"B">>>>, <<<<"B">>, <<"A">>>>)>>)
    /\ SbmlOk
    /\ Triples(sbmlOut.response) = <<<<<<"R", "1">>, <<"A">>, <<"B">>>>, <<<<"R", "1">>, <<"B">>, <<"A">>>>,
                                     <<<<"R", "1">>, <<"B">>, <<"A">>>>, <<<<"R", "1">>, <<"A">>, <<"B">>>>>>

\* the seen-key set when the k-th (substrate, product) pair of the r-th
\* reaction element is processed
SeenBefore(root, node_ids, r, k) ==
    EmitPairs(EmitReactions(root.reactions, CollectEntryData(root), node_ids, r - 1),
              ReactionData(root.reactions[r], CollectEntryData(root)),
              node_ids, k - 1).seen_edges

HasEdge(response, reaction_id, source, target) ==
    \E i \in 1..Len(response.edges) :
        Triple(response.edges[i]) = <<reaction_id, source, target>>

BackwardEdges(root, response, r) ==
    LET rx == ReactionData(root.reactions[r], CollectEntryData(root))
        node_ids == NodeIds(response.nodes)
    IN rx.reversible =>
          \A s \in 1..Len(rx.substrates), p \in 1..Len(rx.products) :
              (/\ rx.substrates[s] \in node_ids
               /\ rx.products[p] \in node_ids
               /\ <<rx.reaction_id, rx.products[p], rx.substrates[s]>>
                     \notin SeenBefore(root, node_ids, r,
                                       (s - 1) * Len(rx.products) + p))
              => HasEdge(response, rx.reaction_id, rx.products[p], rx.substrates[s])

IsR1BetweenAAndB(reaction) ==
    /\ reaction.id = <<"R", "1">>
    /\ reaction.type = "reversible"
    /\ reaction.substrates = <<<<"A">>>>
    /\ reaction.products = <<<<"B">>>>

R1Scenario(root, response) ==
    (/\ Len(root.reactions) = 1
     /\ IsR1BetweenAAndB(root.reactions[1])
     /\ {<<"A">>, <<"B">>} \subseteq NodeIds(response.nodes))
    => /\ EdgeIds(response) = <<<<"R", "1", ":", "A", "-", ">", "B">>, <<"R", "1", "_", "r", "e", "v", ":", "B", "-", ">", "A">>>>
       /\ \A i \in 1..2 : response.edges[i].reversible

\* C3: for every reversible KGML reaction element and every (substrate S,
\* product P) pair of it between emitted nodes, the response has an edge
\* P -> S of that reaction id unless the key (reaction id, P, S) was in the
\* seen-key set when the pair was processed; one reversible reaction R1
\* between A and B gives exactly R1:A->B and R1_rev:B->A, both reversible.
ReversibleExpansion ==
    \A hide \in BOOLEAN :
        KgmlOk(hide) =>
            /\ \A r \in 1..Len(kegg.root.reactions) :
                  BackwardEdges(kegg.root, kgmlOut[hide].response, r)
            /\ R1Scenario(kegg.root, kgmlOut[hide].response)

\* an irreversible element R1 A -> B, then a reversible element R1 A -> B:
\* the second is skipped on its forward key and B -> A is never emitted
ReversibleExpansionFails ==
    /\ kegg.root = KgmlRoot(BaseEntries,
                            <<Rx(<<"R", "1">>, <<"r", "n", ":", "R", "1">>, Absent, <<<<"A">>>>, <<<<"B">>>>),
                              Rx(<<"R", "1">>, <<"r", "n", ":", "R", "1">>, "reversible", <<<<"A">>>>, <<<<"B">>>>)>>)
    /\ KgmlOk(FALSE)
    /\ {<<"A">>, <<"B">>} \subseteq NodeIds(kgmlOut[FALSE].response.nodes)
    /\ <<<<"R", "1">>, <<"B">>, <<"A">>>> \notin SeenBefore(kegg.root, {<<"A">>, <<"B">>, <<"C">>}, 2, 1)
    /\ Triples(kgmlOut[FALSE].response) = <<<<<<"R", "1">>, <<"A">>, <<"B">>>>>>

\* C4: in every response of either pipeline no two edges have the same id.
EdgeIdsUnique == \A response \in Responses : Distinct(EdgeIds(response))

\* a reversible R1 A -> B, then an irreversible reaction whose own id is
\* R1_rev, B -> A: the reverse edge of the first and the forward edge of
\* the second are both R1_rev:B->A
EdgeIdsUniqueFails ==
    /\ kegg.root = KgmlRoot(BaseEntries,
                            <<Rx(<<"R", "1">>, <<"r", "n", ":", "R", "1">>, "reversible", <<<<"A">>>>, <<<<"B">>>>),
                              Rx(<<"R", "1", "_", "r", "e", "v">>, None, "irreversible", <<<<"B">>>>, <<<<"A">>>>)>>)
    /\ KgmlOk(FALSE)
    /\ EdgeIds(kgmlOut[FALSE].response)
          = <<<<"R", "1", ":", "A", "-", ">", "B">>, <<"R", "1", "_", "r", "e", "v", ":", "B", "-", ">", "A">>, <<"R", "1", "_", "r", "e", "v", ":", "B", "-", ">", "A">>>>

\* what translate_kgml_to_graph returned
Graph(response) ==
    [pathway_id |-> response.pathway_id, pathway_name |-> response.pathway_name,
     nodes |-> response.nodes, edges |-> response.edges]

\* the unfiltered result with the cofactor nodes dropped, then the edges
\* that lost an endpoint
WithoutCofactors(graph) ==
    LET NotCofactor(n) == ~n.is_cofactor
        surviving == SelectSeq(graph.nodes, NotCofactor)
        Survives(e) ==
            e.source \in NodeIds(surviving) /\ e.target \in NodeIds(surviving)
    IN [graph EXCEPT !.nodes = surviving, !.edges = SelectSeq(graph.edges, Survives)]

CofactorScenario ==
    KgmlRoot(<<CofactorA, EntryB>>,
             <<Rx(<<"R", "1">>, None, "irreversible", <<<<"A">>>>, <<<<"B">>>>)>>)

\* C5: for every KGML document the response with hide_cofactors=true is the
\* response with hide_cofactors=false after dropping the cofactor nodes and
\* then every edge that lost an endpoint, node fields and order unchanged;
\* an irreversible A -> B with A a cofactor gives 2 nodes and 1 edge
\* unfiltered, 1 node and 0 edges filtered.
CofactorFilterEquivalence ==
    (KgmlOk(TRUE) /\ KgmlOk(FALSE)) =>
        /\ Graph(kgmlOut[TRUE].response)
              = WithoutCofactors(Graph(kgmlOut[FALSE].response))
        /\ kegg.root = CofactorScenario =>
              /\ kgmlOut[FALSE].response.node_count = 2
              /\ kgmlOut[FALSE].response.edge_count = 1
              /\ kgmlOut[TRUE].response.node_count = 1
              /\ kgmlOut[TRUE].response.edge_count = 0

\* both requests served for a document with a cofactor that has edges and
\* whose removal would move the minimum of the coordinates
CofactorFilterEquivalenceWitness ==
    /\ KgmlOk(TRUE) /\ KgmlOk(FALSE)
    /\ kegg.root = CofactorScenario
    /\ kgmlOut[FALSE].response.edges # <<>>
    /\ kgmlOut[TRUE].response.nodes # kgmlOut[FALSE].response.nodes
    /\ kgmlOut[TRUE].response.edges # kgmlOut[FALSE].response.edges

FetchFails == ~(kegg.kind = "reply" /\ kegg.status = 200 /\ kegg.decodable)

\* C6: every failure of build_metabolic_graph is a RuntimeError, when the
\* fetch fails (after exactly one fetch attempt) and when the fetched text is
\* not parsable XML.
KgmlFailureChannel ==
    \A hide \in BOOLEAN :
        kgmlOut[hide].served =>
            /\ kgmlOut[hide].raised \in {"", "RuntimeError"}
            /\ FetchFails => kgmlOut[hide].raised = "RuntimeError"
                             /\ kgmlOut[hide].fetches = 1
            /\ ~kegg.parsable => kgmlOut[hide].raised = "RuntimeError"

\* KEGG answers 200 with a body that is no XML: ET.fromstring raises
\* ParseError, which get_pathway does not catch
KgmlFailureChannelFails ==
    /\ kegg = Remote("reply", 200, TRUE, FALSE, EmptyRoot)
    /\ kgmlOut[FALSE].served
    /\ kgmlOut[FALSE].raised = "ParseError"
    /\ kgmlOut[FALSE].status = 500
    /\ ~kgmlOut[FALSE].handled

\* the ids of the species elements that have an id or a name
SpeciesIds(content) ==
    {OrElse(content.species[i].id, content.species[i].name) :
        i \in {j \in 1..Len(content.species) :
                  Truthy(OrElse(content.species[j].id, content.species[j].name))}}

\* some reaction lists two different known species as reactant and product
EdgeProducible(content) ==
    \E i \in 1..Len(content.reactions) :
        \E s \in Range(content.reactions[i].reactants) :
            \E p \in Range(content.reactions[i].products) :
                /\ s # p
                /\ {s, p} \subseteq SpeciesIds(content)

\* C7: build_metabolic_graph_from_sbml returns a response if and only if the
\* document parses, a species with an id or a name is found and an edge is
\* produced, and otherwise raises RuntimeError; with zero species it raises
\* before any reaction element is examined; a response has at least one node
\* and at least one edge.
SbmlFailureChannel ==
    (sbmlOut.served /\ sbmlOut.called) =>
        /\ sbmlOut.raised \in {"", "RuntimeError"}
        /\ sbmlOut.raised = "" <=>
              /\ upload.parsable
              /\ SpeciesIds(upload) # {}
              /\ EdgeProducible(upload)
        /\ SpeciesIds(upload) = {} => sbmlOut.reactions_examined = 0
        /\ sbmlOut.raised = "" =>
              /\ Len(sbmlOut.response.nodes) >= 1
              /\ Len(sbmlOut.response.edges) >= 1
              /\ sbmlOut.status = 200
        /\ sbmlOut.raised = "RuntimeError" => sbmlOut.status = 422

\* a parsable document with reaction elements and species elements, none of
\* which has an id or a name
SbmlFailureChannelWitness ==
    /\ sbmlOut.served /\ sbmlOut.called
    /\ upload.parsable
    /\ upload.species # <<>>
    /\ upload.reactions # <<>>
    /\ SpeciesIds(upload) = {}
    /\ sbmlOut.raised = "RuntimeError"
    /\ sbmlOut.message = "No species found in SBML model"

\* the elements of seq at the positions in keep, in order
Pick(seq, keep) == [n \in 1..Cardinality(keep) |-> seq[Nth(keep, n)]]

\* the entries without those that repeat the id of an earlier entry
FirstEntries(entries) ==
    Pick(entries,
         {i \in 1..Len(entries) :
             \/ ~Truthy(entries[i].id)
             \/ \A j \in 1..(i - 1) : entries[j].id # entries[i].id})

\* the species without those that repeat the id of an earlier species
FirstSpecies(species) ==
    Pick(species,
         {i \in 1..Len(species) :
             \/ ~Truthy(OrElse(species[i].id, species[i].name))
             \/ \A j \in 1..(i - 1) :
                   OrElse(species[j].id, species[j].name)
                      # OrElse(species[i].id, species[i].name)})

NodeIdSeq(response) == [i \in 1..Len(response.nodes) |-> response.nodes[i].id]

\* C8: in every response of either pipeline no two nodes have the same id,
\* and the entries (KGML) or species (SBML) that repeat the id of an earlier
\* one have no effect on the response: it is the response to the document
\* without them.
FirstOccurrenceWins ==
    /\ \A response \in Responses : Distinct(NodeIdSeq(response))
    /\ \A hide \in BOOLEAN :
          KgmlOk(hide) =>
              kgmlOut[hide] =
                  GetPathwayOutcome([kegg EXCEPT !.root.entries = FirstEntries(@)],
                                    hide)
    /\ SbmlOk =>
          sbmlOut = ImportSbmlOutcome([upload EXCEPT !.species = FirstSpecies(@)])

\* compound A, then a gene element with the id A, then compound B: the gene
\* replaces the compound in entries_by_id, so node A and the edge R1:A->B
\* are missing from the response
FirstOccurrenceWinsFails ==
    /\ kegg.root = KgmlRoot(<<EntryA, GeneA, EntryB>>, FixedReactions)
    /\ KgmlOk(FALSE)
    /\ NodeIdSeq(kgmlOut[FALSE].response) = <<<<"B">>>>
    /\ kgmlOut[FALSE].response.edges = <<>>
    /\ EdgeIds(GetPathwayOutcome([kegg EXCEPT !.root.entries = <<EntryA, EntryB>>],
                                 FALSE).response) = <<<<"R", "1", ":", "A", "-", ">", "B">>>>

\* the entries _normalize_coordinates is applied to
CompoundEntries(root) ==
    LET IsCompound(data) == data.type = "compound"
    IN SelectSeq(CollectEntryData(root), IsCompound)

AppliedScale(root) ==
    Scale(RangeX(CompoundEntries(root)), RangeY(CompoundEntries(root)))

\* n + 2^-k
JustAbove(n, k) == [int |-> n, frac |-> [i \in 1..k |-> IF i = k THEN 1 ELSE 0]]

Within(low, f, high) == FxLeq(low, f) /\ FxLeq(f, high)

CoordinatesWithin(response, x_max, y_max) ==
    \A i \in 1..Len(response.nodes) :
        /\ Within(FxInt(Padding), response.nodes[i].x, x_max)
        /\ Within(FxInt(Padding), response.nodes[i].y, y_max)

MinimaAtPadding(response) ==
    /\ \E i \in 1..Len(response.nodes) : response.nodes[i].x = FxInt(Padding)
    /\ \E i \in 1..Len(response.nodes) : response.nodes[i].y = FxInt(Padding)

Normalized(x_max, y_max) ==
    \A hide \in BOOLEAN :
        (KgmlOk(hide) /\ Len(CompoundEntries(kegg.root)) >= 2) =>
            /\ FxLeq(AppliedScale(kegg.root), FxInt(5))
            /\ CoordinatesWithin(kgmlOut[hide].response, x_max, y_max)
            /\ ~hide => MinimaAtPadding(kgmlOut[hide].response)

\* C9 as stated: for two or more compound entries the scale factor is at
\* most 5.0, every coordinate of the response satisfies 80 <= x <= 1120 and
\* 80 <= y <= 820, and the minimum x and the minimum y are exactly 80.
NormalizationBounded == Normalized(FxInt(1120), FxInt(820))

\* C9: for two or more compound entries the scale factor is at most 5.0,
\* every coordinate of the response satisfies 80 <= x <= 1120 + 2^-42 and
\* 80 <= y <= 820 + 2^-43, the upper limits being reached up to the rounding
\* of the division, the product and the sum, and the minimum x and the
\* minimum y are exactly 80.
NormalizationBoundedUpToRounding == Normalized(JustAbove(1120, 42), JustAbove(820, 43))

\* two compounds with y = 0 and y = 163: 740 / 163 rounds up, and the larger
\* y becomes 820.0000000000001
NormalizationRoundsAbove ==
    /\ kegg.root = KgmlRoot(CoordEntries(<<<<<<"0">>, <<"0">>>>, <<<<"0">>, <<"1", "6", "3">>>>>>), <<>>)
    /\ KgmlOk(FALSE)
    /\ kgmlOut[FALSE].response.nodes[1].y = FxInt(80)
    /\ kgmlOut[FALSE].response.nodes[2].y = JustAbove(820, 43)
    /\ ~FxLeq(kgmlOut[FALSE].response.nodes[2].y, FxInt(820))

\* 0.a + 0.b, sixteen bits at a time from the last group up: <<carry, bits>>
RECURSIVE AddLimbs(_, _, _, _)
AddLimbs(a, b, c, n) ==
    IF c > n THEN <<0, <<>>>>
    ELSE LET low == AddLimbs(a, b, c + 1, n)
             t == Limb(a, c) + Limb(b, c) + low[1]
         IN <<t \div LimbBase, LimbToBits(t % LimbBase) \o low[2]>>

\* f + g, not rounded
ExactSum(f, g) ==
    LET s == AddLimbs(f.frac, g.frac, 1,
                      (Max2(Len(f.frac), Len(g.frac)) + LimbBits - 1) \div LimbBits)
    IN [int |-> f.int + g.int + s[1], frac |-> TrimZeros(s[2])]

\* d * f, not rounded
ExactProduct(d, f) ==
    LET p == MulBits(f.frac, d)
    IN [int |-> f.int * d + p[1], frac |-> TrimZeros(p[2])]

\* |f - g| <= 2^-50
Near(f, g) ==
    /\ FxLeq(f, ExactSum(g, JustAbove(0, 50)))
    /\ FxLeq(g, ExactSum(f, JustAbove(0, 50)))

\* the nodes build_metabolic_graph_from_sbml lays out
Placed == SbmlNodes(SpeciesNodes(upload.species, Len(upload.species)))

\* the ids of the species, each at its first occurrence
SpeciesIdSeq(content) ==
    LET HasId(s) == Truthy(OrElse(s.id, s.name))
        first == SelectSeq(FirstSpecies(content.species), HasId)
    IN [i \in 1..Len(first) |-> OrElse(first[i].id, first[i].name)]

RadiusFor(n) == IF 28 * n < 170 THEN 170 ELSE IF 28 * n > 560 THEN 560 ELSE 28 * n

OnCircle(nodes) ==
    \A i \in 1..Len(nodes) :
        /\ nodes[i].x.center = 640 /\ nodes[i].x.of = "cos"
        /\ nodes[i].y.center = 420 /\ nodes[i].y.of = "sin"
        /\ nodes[i].x.radius = RadiusFor(Len(nodes))
        /\ nodes[i].y.radius = RadiusFor(Len(nodes))
        /\ nodes[i].x.radius \in 170..560
        /\ nodes[i].y.angle = nodes[i].x.angle
        /\ i = 1 => nodes[i].x.angle = FxInt(0)

\* the angle of the second node is the step: times the node count it is a
\* full turn
FullTurn(nodes) ==
    Len(nodes) >= 2 => Near(ExactProduct(Len(nodes), nodes[2].x.angle), TwoPi)

SpacedExactly(nodes) ==
    \A i \in 1..(Len(nodes) - 1) :
        ExactSum(nodes[i].x.angle, nodes[2].x.angle) = nodes[i + 1].x.angle

SpacedUpToRounding(nodes) ==
    \A i \in 1..(Len(nodes) - 1) :
        Near(ExactSum(nodes[i].x.angle, nodes[2].x.angle), nodes[i + 1].x.angle)

LaidOut == sbmlOut.served /\ sbmlOut.called /\ upload.parsable /\ SpeciesIds(upload) # {}

\* C10 as stated: for n >= 1 species the nodes, in first-occurrence order of
\* the species ids, lie around (640, 420) at the radius min(560, max(170,
\* 28 n)), which is in [170, 560], the first at angle 0 and each next one
\* exactly one angle step further.
RadialLayout ==
    LaidOut =>
        /\ NodeIdSeq([nodes |-> Placed]) = SpeciesIdSeq(upload)
        /\ OnCircle(Placed)
        /\ SpacedExactly(Placed)
        /\ SbmlOk => sbmlOut.response.nodes = Placed

\* C10: for n >= 1 species the nodes, in first-occurrence order of the
\* species ids, lie around (640, 420) at the radius min(560, max(170, 28 n)),
\* which is in [170, 560], the first at angle 0 and each next one an angle
\* step further up to the rounding of the products (2^-50), the step times n
\* being 2 * pi up to the rounding of the division.
RadialLayoutUpToRounding ==
    LaidOut =>
        /\ NodeIdSeq([nodes |-> Placed]) = SpeciesIdSeq(upload)
        /\ OnCircle(Placed)
        /\ FullTurn(Placed)
        /\ SpacedUpToRounding(Placed)
        /\ SbmlOk => sbmlOut.response.nodes = Placed

\* six species: the fourth angle, 3 * angle_step rounded, is not the third
\* plus the step
RadialLayoutRounds ==
    /\ SbmlOk
    /\ Len(sbmlOut.response.nodes) = 6
    /\ ExactSum(sbmlOut.response.nodes[3].x.angle, sbmlOut.response.nodes[2].x.angle)
          # sbmlOut.response.nodes[4].x.angle
    /\ SpacedUpToRounding(sbmlOut.response.nodes)

\* the rn: tokens of a reaction's name attribute, in order
RnTokens(reaction_name) ==
    LET IsRn(token) == StartsWith(token, <<"r", "n", ":">>)
    IN SelectSeq(SplitWs(reaction_name), IsRn)

\* the ids of the entries whose own reaction attribute holds the token, in
\* the order of entries_by_id
Declaring(entries_by_id, token) ==
    LET Declares(data) == token \in Range(SplitWs(data.reaction_name))
        hits == SelectSeq(entries_by_id, Declares)
    IN [i \in 1..Len(hits) |-> hits[i].id]

RECURSIVE DeclaringAll(_, _)
DeclaringAll(entries_by_id, tokens) ==
    IF tokens = <<>> THEN <<>>
    ELSE Declaring(entries_by_id, Head(tokens))
         \o DeclaringAll(entries_by_id, Tail(tokens))

LabelOfEntry(entries_by_id, entry_id) ==
    entries_by_id[CHOOSE i \in 1..Len(entries_by_id) :
                     entries_by_id[i].id = entry_id].label

\* the enzymes list as described: the entry the reaction id names, then the
\* entries declaring each rn: token of the name, first seen first; their
\* non-empty labels shorter than 32 characters without repeats; the first 4
EnzymesByToken(entries_by_id, reaction_id, tokens) ==
    LET direct == IF \E i \in 1..Len(entries_by_id) :
                        entries_by_id[i].id = reaction_id
                  THEN <<reaction_id>> ELSE <<>>
        found == ExtendNew(direct, DeclaringAll(entries_by_id, tokens))
        labels == KeepLabels(<<>>, [i \in 1..Len(found) |->
                                       LabelOfEntry(entries_by_id, found[i])])
    IN SubSeq(labels, 1, Min2(Len(labels), 4))

\* the labels among them of the entries that declared a token
DeclaredLabels(entries_by_id, edge) ==
    {LabelOfEntry(entries_by_id, id) :
        id \in Range(DeclaringAll(entries_by_id, RnTokens(edge.reaction_name)))}
    \cap Range(EnzymesByToken(entries_by_id, edge.reaction_id,
                              RnTokens(edge.reaction_name)))

\* C11: on every edge of a KGML response whose reaction's name holds rn:
\* tokens, the enzymes list holds the label of every entry that declared one
\* of those tokens in its own reaction attribute, when that label is
\* non-empty, shorter than 32 characters and among the first 4 labels kept.
EnzymeLookupByToken ==
    \A hide \in BOOLEAN :
        KgmlOk(hide) =>
            \A i \in 1..Len(kgmlOut[hide].response.edges) :
                DeclaredLabels(CollectEntryData(kegg.root),
                               kgmlOut[hide].response.edges[i])
                    \subseteq Range(kgmlOut[hide].response.edges[i].enzymes)

\* the gene G declares rn:R1 and the reaction R1 is named rn:R1, yet the edge
\* R1:A->B has no enzymes: reaction_lookup files G under R1, and the lookup
\* asks for rn:R1. Without the name the lookup falls back to the id R1 and
\* finds G.
EnzymeLookupByTokenFails ==
    /\ kegg.root = KgmlRoot(BaseEntries,
                            <<Rx(<<"R", "1">>, <<"r", "n", ":", "R", "1">>, Absent, <<<<"A">>>>, <<<<"B">>>>)>>)
    /\ KgmlOk(FALSE)
    /\ Declaring(CollectEntryData(kegg.root), <<"r", "n", ":", "R", "1">>) = <<<<"G">>>>
    /\ EdgeIds(kgmlOut[FALSE].response) = <<<<"R", "1", ":", "A", "-", ">", "B">>>>
    /\ kgmlOut[FALSE].response.edges[1].enzymes = <<>>
    /\ GetPathwayOutcome([kegg EXCEPT !.root.reactions =
                             <<Rx(<<"R", "1">>, None, Absent, <<<<"A">>>>, <<<<"B">>>>)>>],
                         FALSE).response.edges[1].enzymes = <<<<"p", "y", "k", "A", ",", " ", "p", "y", "k", "F">>>>

====
